---- MODULE Spec2Model ----
(***************************************************************************)
(* Job application tracker UI: the App shell, the JobApplicationTable      *)
(* list view, the JobApplicationForm modal and the JobApplicationService   *)
(* HTTP client, together with the remote API they talk to.                 *)
(*                                                                         *)
(* Every React event handler is one action.  The effects a state change    *)
(* triggers (useEffect with a dependency list) run in the commit that      *)
(* follows the handler, before the next event is handled, and are part of  *)
(* the handler's action.  An asynchronous handler is split at its awaits:  *)
(* the part before the await is the action that issues the request, the    *)
(* part after it is the action that handles the response, and the values   *)
(* the closure captured travel with the request.                           *)
(*                                                                         *)
(* Text is a sequence of characters, a calendar date "YYYY-MM-DD" is the   *)
(* tuple <<y, m, d>> (<<>> for the empty input), an instant (a Date, an    *)
(* ISO-8601 date-time string) is a number of ticks since the start of      *)
(* BaseYear in UTC.                                                        *)
(***************************************************************************)
EXTENDS Integers, Sequences, FiniteSets, Bags, TLC

\* ------------------------------------------------------------------------
\* Bounds of the model
\* ------------------------------------------------------------------------
TicksPerDay == 2        \* instants per day: tick 0 is midnight UTC
MaxPending == 1         \* requests in flight together
MaxClock == 2           \* writes the server accepts (its audit clock)
MaxPage == 3            \* cap on the page the Next control can reach
MaxInit == 2            \* records the server holds at the start
MaxRows == 13           \* longest list the derived view is checked on
MaxRacing == 2          \* requests in flight at once where calls race

\* ------------------------------------------------------------------------
\* Program constants
\* ------------------------------------------------------------------------
pageSize == 5
MaxLength == 200
BaseYear == 2022

ApplicationStatus == 1..6
Applied == 1
UnderReview == 2
Interview == 3

\* ------------------------------------------------------------------------
\* Text: String.prototype.trim
\* ------------------------------------------------------------------------
IsSpace(c) == c = " "

RECURSIVE TrimStart(_)
TrimStart(s) ==
  IF s = <<>> THEN <<>>
  ELSE IF IsSpace(Head(s)) THEN TrimStart(Tail(s)) ELSE s

RECURSIVE TrimEnd(_)
TrimEnd(s) ==
  IF s = <<>> THEN <<>>
  ELSE IF IsSpace(s[Len(s)]) THEN TrimEnd(SubSeq(s, 1, Len(s) - 1)) ELSE s

Trim(s) == TrimEnd(TrimStart(s))

\* n copies of the character c
Rep(c, n) == [i \in 1..n |-> c]

\* ------------------------------------------------------------------------
\* Dates: new Date("YYYY-MM-DD"), toISOString().split('T')[0], setFullYear
\* ------------------------------------------------------------------------
IsLeap(y) == (y % 4 = 0 /\ y % 100 # 0) \/ y % 400 = 0

DaysInYear(y) == IF IsLeap(y) THEN 366 ELSE 365

DaysInMonth(y, m) ==
  IF m = 2 THEN (IF IsLeap(y) THEN 29 ELSE 28)
  ELSE IF m \in {4, 6, 9, 11} THEN 30 ELSE 31

RECURSIVE DaysBeforeYear(_)
DaysBeforeYear(y) ==
  IF y <= BaseYear THEN 0 ELSE DaysBeforeYear(y - 1) + DaysInYear(y - 1)

RECURSIVE DaysBeforeMonth(_, _)
DaysBeforeMonth(y, m) ==
  IF m <= 1 THEN 0 ELSE DaysBeforeMonth(y, m - 1) + DaysInMonth(y, m - 1)

\* Days from the start of BaseYear to the date; a day past the end of its
\* month runs over into the next month, as a Date does.
DayNumber(d) == DaysBeforeYear(d[1]) + DaysBeforeMonth(d[1], d[2]) + d[3] - 1

Years == BaseYear..(BaseYear + 4)

\* the date of year y whose day of the year (from 0) is r
DateIn(y, r) ==
  CHOOSE d \in {<<y, m, r - DaysBeforeMonth(y, m) + 1>> : m \in 1..12} :
    1 <= d[3] /\ d[3] <= DaysInMonth(y, d[2])

DateOfDay(n) ==
  CHOOSE d \in {DateIn(y, n - DaysBeforeYear(y)) :
                 y \in {yy \in Years : /\ DaysBeforeYear(yy) <= n
                                       /\ n < DaysBeforeYear(yy + 1)}} : TRUE

NoDate == <<>>

\* new Date("YYYY-MM-DD"): the instant of midnight UTC of that date
ParseDate(d) == DayNumber(d) * TicksPerDay

\* new Date(t).toISOString().split('T')[0]: the UTC calendar date of t
\* (formatDateForInput); the time of day is dropped
formatDateForInput(t) == DateOfDay(t \div TicksPerDay)

\* d = new Date(t); d.setFullYear(d.getFullYear() - 1): same month, day and
\* time of day one year earlier
OneYearAgo(t) ==
  LET d == formatDateForInput(t)
  IN  DayNumber(<<d[1] - 1, d[2], d[3]>>) * TicksPerDay + (t % TicksPerDay)

\* ------------------------------------------------------------------------
\* Records
\* ------------------------------------------------------------------------
JobApplication(i, c, p, s, d, ca, ua) ==
  [id |-> i, company |-> c, position |-> p, status |-> s,
   dateApplied |-> d, createdAt |-> ca, updatedAt |-> ua]

\* undefined / null where the code holds a JobApplication or nothing
NoApp == JobApplication(0, <<>>, <<>>, 0, 0, 0, 0)

Dto(c, p, s, d) ==
  [company |-> c, position |-> p, status |-> s, dateApplied |-> d]

NoDto == Dto(<<>>, <<>>, 0, 0)

NoErrors ==
  [company |-> "", position |-> "", status |-> "", dateApplied |-> "",
   general |-> ""]

\* A request with the values its handler's closure captured.
\*   kind   "getAll" | "status" | "delete" | "create" | "update"
\*   phase  "sent": on its way to the server; "resp": response on its way
\*          back; for "status" the GET is "sent"/"resp" and the PUT that
\*          follows is "put"/"done"
\*   app    the record the closure holds: applicationToDelete (delete),
\*          editingApplication (create, update), currentApp (status)
\*   replaced  the record a PUT overwrote on the server
Request(k, ph, i, s, dto, app) ==
  [kind |-> k, phase |-> ph, id |-> i, status |-> s, dto |-> dto,
   app |-> app, ok |-> TRUE, err |-> "", result |-> NoApp, list |-> <<>>,
   replaced |-> NoApp]

HttpError(status) == "HTTP " \o status \o ": Server error"
NetworkError == "Network error: No response from server"

\* the failures the response interceptor can hand to a caller
Failures == {NetworkError}

\* ------------------------------------------------------------------------
\* State
\* ------------------------------------------------------------------------
VARIABLES
  now,                  \* the current instant (new Date())
  srv,                  \* remote API: its records, in the order it lists them
  srvClock,             \* remote API: clock behind createdAt / updatedAt
  nextId,               \* remote API: the id the next created record gets
  net,                  \* requests in flight
  \* JobApplicationTable
  jobApplications, loading, error, currentPage, statusFilter,
  showDeleteModal, applicationToDelete, isDeleting,
  \* App
  isFormVisible, editingApplication, resetFilter, newApplication,
  updatedApplication,
  \* JobApplicationForm
  formData, errors, isSubmitting, isEdit

serverVars == <<srv, srvClock, nextId>>
tableVars == <<jobApplications, loading, error, currentPage, statusFilter,
               showDeleteModal, applicationToDelete, isDeleting>>
appVars == <<isFormVisible, editingApplication, resetFilter, newApplication,
             updatedApplication>>
formVars == <<formData, errors, isSubmitting, isEdit>>
vars == <<now, srv, srvClock, nextId, net, jobApplications, loading, error,
          currentPage, statusFilter, showDeleteModal, applicationToDelete,
          isDeleting, isFormVisible, editingApplication, resetFilter,
          newApplication, updatedApplication, formData, errors,
          isSubmitting, isEdit>>

\* net is a bag: two equal requests can be in flight together
InFlight == BagToSet(net)
Send(r) == net' = net (+) SetToBag({r})

\* the step leaves at most n requests in flight
Within(n) == BagCardinality(net') <= n

\* statusFilter '' (All Statuses)
NoFilter == 0

\* ------------------------------------------------------------------------
\* JobApplicationTable: the derived view
\* ------------------------------------------------------------------------
Min(a, b) == IF a < b THEN a ELSE b
Max(a, b) == IF a > b THEN a ELSE b

\* Math.ceil(n / d) for n >= 0, d > 0
Ceil(n, d) == IF n % d = 0 THEN n \div d ELSE (n \div d) + 1

\* Array.prototype.slice(start, end): 0-based, end exclusive, both clamped
Slice(s, start, end) ==
  LET len == Len(s)
      from == IF start < 0 THEN Max(len + start, 0) ELSE Min(start, len)
      to == IF end < 0 THEN Max(len + end, 0) ELSE Min(end, len)
  IN  IF from >= to THEN <<>> ELSE SubSeq(s, from + 1, to)

\* (variant: '' is compared like a status)
FilterByStatusOnly(list, f) ==
  LET Keep(app) == app.status = f
  IN  SelectSeq(list, Keep)

FilterBy(list, f) ==
  LET Keep(app) == f = NoFilter \/ app.status = f
  IN  SelectSeq(list, Keep)

TotalPagesOf(n) == Ceil(n, pageSize)

\* (variant: the page starts one page late)
PageOfNext(list, page) ==
  LET startIndex == page * pageSize
      endIndex == startIndex + pageSize
  IN  Slice(list, startIndex, endIndex)

PageOf(list, page) ==
  LET startIndex == (page - 1) * pageSize
      endIndex == startIndex + pageSize
  IN  Slice(list, startIndex, endIndex)

filteredApplications == FilterBy(jobApplications, statusFilter)
totalPages == TotalPagesOf(Len(filteredApplications))
currentApplications == PageOf(filteredApplications, currentPage)

Range(s) == {s[i] : i \in DOMAIN s}

\* A modal's backdrop covers the page: the page's controls take no click
\* while the form or the delete confirmation is shown.
PageFree == ~isFormVisible /\ ~showDeleteModal
\* While loading the table renders the spinner alone.
TableShown == ~loading /\ PageFree

\* (variant: Withdrawn falls through to the default)
getStatusLabelFive(status) ==
  CASE status = 1 -> "Applied"
    [] status = 2 -> "Under Review"
    [] status = 3 -> "Interview"
    [] status = 4 -> "Offer"
    [] status = 5 -> "Rejected"
    [] OTHER -> "Unknown"

\* switch (status) { case ...: return label; default: return 'Unknown' }
getStatusLabel(status) ==
  CASE status = 1 -> "Applied"
    [] status = 2 -> "Under Review"
    [] status = 3 -> "Interview"
    [] status = 4 -> "Offer"
    [] status = 5 -> "Rejected"
    [] status = 6 -> "Withdrawn"
    [] OTHER -> "Unknown"

\* the caption after the count of shown applications
filterCaption ==
  IF statusFilter # NoFilter
  THEN " (filtered by " \o getStatusLabel(statusFilter) \o ")"
  ELSE ""

\* ------------------------------------------------------------------------
\* JobApplicationForm: defaults and effects
\* ------------------------------------------------------------------------
Today(t) == formatDateForInput(t)

\* (variant: the date of the day before)
DefaultFormDataYesterday(t) ==
  [company |-> <<>>, position |-> <<>>, status |-> Applied,
   dateApplied |-> formatDateForInput(t - TicksPerDay)]

DefaultFormData(t) ==
  [company |-> <<>>, position |-> <<>>, status |-> Applied,
   dateApplied |-> Today(t)]

\* (variant: the form keeps the fields of a new record)
FormDataOfNone(app) ==
  [company |-> <<>>, position |-> <<>>, status |-> Applied,
   dateApplied |-> formatDateForInput(app.dateApplied)]

FormDataOf(app) ==
  [company |-> app.company, position |-> app.position,
   status |-> app.status, dateApplied |-> formatDateForInput(app.dateApplied)]

\* The form's two effects, run after a commit in which the props went from
\* (oldApp, oldVis) to (newApp, newVis); f is the form's state as the
\* handler left it.
FormEffects(oldApp, newApp, oldVis, newVis, f) ==
  LET f1 == IF newApp = oldApp THEN f
            ELSE IF newApp # NoApp
                 THEN [f EXCEPT !.isEdit = TRUE,
                                !.formData = FormDataOf(newApp),
                                !.errors = NoErrors]
                 ELSE [f EXCEPT !.isEdit = FALSE,
                                !.formData = DefaultFormData(now),
                                !.errors = NoErrors]
  IN  IF newVis # oldVis /\ ~newVis
      THEN [f1 EXCEPT !.errors = NoErrors, !.isSubmitting = FALSE]
      ELSE f1

FormState ==
  [formData |-> formData, errors |-> errors, isSubmitting |-> isSubmitting,
   isEdit |-> isEdit]

SetForm(f) ==
  /\ formData' = f.formData
  /\ errors' = f.errors
  /\ isSubmitting' = f.isSubmitting
  /\ isEdit' = f.isEdit

\* ------------------------------------------------------------------------
\* Initial state: the components are mounted, the table's mount effect has
\* called loadJobApplications and its getAll is in flight.
\* ------------------------------------------------------------------------
Noon(d) == ParseDate(d) + 1
Now0 == Noon(<<2024, 6, 15>>)

StatusOf(i) ==
  IF i % 2 = 1 THEN Applied ELSE IF i % 4 = 0 THEN Interview ELSE UnderReview

ServerRecord(i) ==
  JobApplication(i, <<"a">>, <<"p">>, StatusOf(i), Noon(<<2024, 6, 1>>), 0, 0)

ServerWith(n) == [i \in 1..n |-> ServerRecord(i)]

InitClient ==
  /\ net = SetToBag({Request("getAll", "sent", 0, 0, NoDto, NoApp)})
  /\ jobApplications = <<>>
  /\ loading = TRUE
  /\ error = ""
  /\ currentPage = 1
  /\ statusFilter = NoFilter
  /\ showDeleteModal = FALSE
  /\ applicationToDelete = NoApp
  /\ isDeleting = FALSE
  /\ isFormVisible = FALSE
  /\ editingApplication = NoApp
  /\ resetFilter = FALSE
  /\ newApplication = NoApp
  /\ updatedApplication = NoApp
  /\ formData = DefaultFormData(now)
  /\ errors = NoErrors
  /\ isSubmitting = FALSE
  /\ isEdit = FALSE

\* the application starts at one of the given instants against a server
\* holding one of the given lists
InitWith(nows, lists) ==
  /\ now \in nows
  /\ srv \in lists
  /\ srvClock = 0
  /\ nextId = Len(srv) + 1
  /\ InitClient

Init == InitWith({Now0}, {ServerWith(n) : n \in 0..MaxInit})

\* ------------------------------------------------------------------------
\* The remote API (GET / POST / PUT / DELETE on /jobapplications) and the
\* transport.  A request is answered once; nothing resends it.
\* ------------------------------------------------------------------------
Has(list, id) == \E i \in DOMAIN list : list[i].id = id
Find(list, id) == list[CHOOSE i \in DOMAIN list : list[i].id = id]

Done(r) == net' = net (-) SetToBag({r})
Respond(r, answer) == net' = (net (-) SetToBag({r})) (+) SetToBag({answer})
Answer(r, ph) == [r EXCEPT !.phase = ph, !.ok = TRUE]
Reject(r, ph, e) == [r EXCEPT !.phase = ph, !.ok = FALSE, !.err = e]

\* GET /jobapplications
ServerGetAll(r) ==
  /\ r.kind = "getAll" /\ r.phase = "sent"
  /\ Respond(r, [Answer(r, "resp") EXCEPT !.list = srv])
  /\ UNCHANGED <<now, serverVars, tableVars, appVars, formVars>>

\* GET /jobapplications/{id}
ServerGetById(r) ==
  /\ r.kind \in {"status", "getById"} /\ r.phase = "sent"
  /\ IF Has(srv, r.id)
     THEN Respond(r, [Answer(r, "resp") EXCEPT !.result = Find(srv, r.id)])
     ELSE Respond(r, Reject(r, "resp", HttpError("404")))
  /\ UNCHANGED <<now, serverVars, tableVars, appVars, formVars>>

\* POST /jobapplications: the server assigns id, createdAt and updatedAt
ServerPost(r) ==
  LET created == JobApplication(nextId, r.dto.company,
                                r.dto.position, r.dto.status,
                                r.dto.dateApplied, srvClock + 1, srvClock + 1)
  IN
  /\ r.kind = "create" /\ r.phase = "sent"
  /\ srvClock < MaxClock
  /\ srv' = Append(srv, created)
  /\ srvClock' = srvClock + 1
  /\ nextId' = nextId + 1
  /\ Respond(r, [Answer(r, "resp") EXCEPT !.result = created])
  /\ UNCHANGED <<now, tableVars, appVars, formVars>>

\* the record a full replacement leaves on the server
Replaced(old, dto, clock) ==
  JobApplication(old.id, dto.company, dto.position, dto.status,
                 dto.dateApplied, old.createdAt, clock)

\* PUT /jobapplications/{id}: full replacement of the four business fields
ServerPut(r) ==
  LET next == IF r.kind = "status" THEN "done" ELSE "resp"
  IN
  /\ \/ r.kind = "update" /\ r.phase = "sent"
     \/ r.kind = "status" /\ r.phase = "put"
  /\ IF Has(srv, r.id)
     THEN LET new == Replaced(Find(srv, r.id), r.dto, srvClock + 1) IN
          /\ srvClock < MaxClock
          /\ srv' = [i \in DOMAIN srv |->
                       IF srv[i].id = r.id THEN new ELSE srv[i]]
          /\ srvClock' = srvClock + 1
          /\ nextId' = nextId
          /\ Respond(r, [Answer(r, next) EXCEPT !.result = new,
                                                !.replaced = Find(srv, r.id)])
     ELSE /\ Respond(r, Reject(r, next, HttpError("404")))
          /\ UNCHANGED serverVars
  /\ UNCHANGED <<now, tableVars, appVars, formVars>>

\* DELETE /jobapplications/{id}
ServerDelete(r) ==
  LET Other(app) == app.id # r.id
  IN
  /\ r.kind = "delete" /\ r.phase = "sent"
  /\ IF Has(srv, r.id)
     THEN /\ srv' = SelectSeq(srv, Other)
          /\ Respond(r, Answer(r, "resp"))
     ELSE /\ Respond(r, Reject(r, "resp", HttpError("404")))
          /\ srv' = srv
  /\ UNCHANGED <<now, srvClock, nextId, tableVars, appVars, formVars>>

\* Another client of the remote API rewrites the company of a record.
ExternalModify(id, company) ==
  /\ Has(srv, id)
  /\ Find(srv, id).company # company
  /\ srvClock < MaxClock
  /\ srv' = [i \in DOMAIN srv |->
               IF srv[i].id = id
               THEN [srv[i] EXCEPT !.company = company,
                                   !.updatedAt = srvClock + 1]
               ELSE srv[i]]
  /\ srvClock' = srvClock + 1
  /\ UNCHANGED <<now, nextId, net, tableVars, appVars, formVars>>

\* The response interceptor rejects: the server answered with an error
\* status, or no response came back (the request may have been served).
RequestFails(r, e) ==
  LET next == IF r.phase \in {"put", "done"} THEN "done" ELSE "resp"
  IN
  /\ \/ r.phase \in {"sent", "put"}
     \/ r.phase \in {"resp", "done"} /\ r.ok /\ e = NetworkError
  /\ Respond(r, Reject(r, next, e))
  /\ UNCHANGED <<now, serverVars, tableVars, appVars, formVars>>

\* ------------------------------------------------------------------------
\* JobApplicationService.updateStatus: after the GET, the PUT
\* ------------------------------------------------------------------------
\* (variant: only the status is sent)
UpdateDtoStatusOnly(currentApp, status) == Dto(<<>>, <<>>, status, 0)

UpdateDtoFor(currentApp, status) ==
  Dto(currentApp.company, currentApp.position, status, currentApp.dateApplied)

\* (variant: the PUT is sent whatever became of the GET)
PutFollowsAlways(r) == r.phase = "resp"

\* return await this.update(...) is reached when await this.getById(id)
\* did not throw
PutFollows(r) == r.phase = "resp" /\ r.ok

updateStatusPut(r) ==
  /\ r.kind = "status" /\ PutFollows(r)
  /\ Respond(r, [r EXCEPT !.phase = "put", !.app = r.result,
                           !.dto = UpdateDtoFor(r.result, r.status),
                           !.result = NoApp])
  /\ UNCHANGED <<now, serverVars, tableVars, appVars, formVars>>

\* ------------------------------------------------------------------------
\* JobApplicationService: its operations as any caller invokes them, and
\* what the caller gets back.  Each operation awaits one apiClient call and
\* rethrows what it catches.
\* ------------------------------------------------------------------------
getAll ==
  /\ Send(Request("getAll", "sent", 0, 0, NoDto, NoApp))
  /\ UNCHANGED <<now, serverVars, tableVars, appVars, formVars>>

getById(id) ==
  /\ Send(Request("getById", "sent", id, 0, NoDto, NoApp))
  /\ UNCHANGED <<now, serverVars, tableVars, appVars, formVars>>

create(dto) ==
  /\ Send(Request("create", "sent", 0, 0, dto, NoApp))
  /\ UNCHANGED <<now, serverVars, tableVars, appVars, formVars>>

update(id, dto) ==
  /\ Send(Request("update", "sent", id, 0, dto, NoApp))
  /\ UNCHANGED <<now, serverVars, tableVars, appVars, formVars>>

delete(id) ==
  /\ Send(Request("delete", "sent", id, 0, NoDto, NoApp))
  /\ UNCHANGED <<now, serverVars, tableVars, appVars, formVars>>

updateStatus(id, status) ==
  /\ Send(Request("status", "sent", id, status, NoDto, NoApp))
  /\ UNCHANGED <<now, serverVars, tableVars, appVars, formVars>>

\* the last call of the operation is answered
Settled(r) ==
  IF r.kind = "status" THEN r.phase = "done" \/ (r.phase = "resp" /\ ~r.ok)
  ELSE r.phase = "resp"

\* the promise resolves with response.data
Returns(r) ==
  /\ Settled(r) /\ r.ok
  /\ Done(r)
  /\ UNCHANGED <<now, serverVars, tableVars, appVars, formVars>>

\* catch (error) { console.error(...); throw error; }
Throws(r) ==
  /\ Settled(r) /\ ~r.ok
  /\ Done(r)
  /\ UNCHANGED <<now, serverVars, tableVars, appVars, formVars>>

\* ------------------------------------------------------------------------
\* JobApplicationTable: handlers
\* ------------------------------------------------------------------------
LoadSuccess(r) ==
  /\ r.kind = "getAll" /\ r.phase = "resp" /\ r.ok
  /\ jobApplications' = r.list
  /\ loading' = FALSE
  /\ Done(r)
  /\ UNCHANGED <<now, serverVars, error, currentPage, statusFilter,
                 showDeleteModal, applicationToDelete, isDeleting, appVars,
                 formVars>>

LoadFail(r) ==
  /\ r.kind = "getAll" /\ r.phase = "resp" /\ ~r.ok
  /\ error' = r.err
  /\ loading' = FALSE
  /\ Done(r)
  /\ UNCHANGED <<now, serverVars, jobApplications, currentPage, statusFilter,
                 showDeleteModal, applicationToDelete, isDeleting, appVars,
                 formVars>>

\* (variant: a status is written only over a lower one)
MergeStatusForward(list, id, newStatus) ==
  [i \in DOMAIN list |->
     IF list[i].id = id /\ list[i].status < newStatus
     THEN [list[i] EXCEPT !.status = newStatus]
     ELSE list[i]]

\* (variant: the status is written to every record)
MergeStatusAll(list, id, newStatus) ==
  [i \in DOMAIN list |-> [list[i] EXCEPT !.status = newStatus]]

\* prev.map(app => app.id === id ? { ...app, status: newStatus } : app)
MergeStatus(list, id, newStatus) ==
  [i \in DOMAIN list |->
     IF list[i].id = id THEN [list[i] EXCEPT !.status = newStatus]
     ELSE list[i]]

\* (variant: the updated record moves to the front)
ReplaceAtFront(list, updated) ==
  LET Other(app) == app.id # updated.id IN <<updated>> \o SelectSeq(list, Other)

\* prev.map(app => app.id === updated.id ? updated : app)
ReplaceById(list, updated) ==
  [i \in DOMAIN list |-> IF list[i].id = updated.id THEN updated ELSE list[i]]

\* (variant: the records after it go too)
RemoveFromId(list, id) ==
  LET Before(app) == app.id < id IN SelectSeq(list, Before)

\* prev.filter(app => app.id !== id)
RemoveById(list, id) ==
  LET Other(app) == app.id # id IN SelectSeq(list, Other)

\* (variant: the new record goes to the end)
InsertAtEnd(list, app) == list \o <<app>>

\* [newApplication, ...prev]
InsertAtFront(list, app) == <<app>> \o list

handleStatusChange(app, newStatus) ==
  /\ TableShown
  /\ app \in Range(currentApplications)
  /\ newStatus \in ApplicationStatus /\ newStatus # app.status
  /\ Send(Request("status", "sent", app.id, newStatus, NoDto, NoApp))
  /\ UNCHANGED <<now, serverVars, tableVars, appVars, formVars>>

StatusChangeSuccess(r) ==
  /\ r.kind = "status" /\ r.phase = "done" /\ r.ok
  /\ jobApplications' = MergeStatus(jobApplications, r.id, r.status)
  /\ Done(r)
  /\ UNCHANGED <<now, serverVars, loading, error, currentPage, statusFilter,
                 showDeleteModal, applicationToDelete, isDeleting, appVars,
                 formVars>>

\* `Failed to update status: ${err.message}`
statusChangeMessage(err) == "Failed to update status: " \o err

StatusChangeFail(r) ==
  /\ r.kind = "status" /\ r.phase \in {"resp", "done"} /\ ~r.ok
  /\ error' = statusChangeMessage(r.err)
  /\ Done(r)
  /\ UNCHANGED <<now, serverVars, jobApplications, loading, currentPage,
                 statusFilter, showDeleteModal, applicationToDelete,
                 isDeleting, appVars, formVars>>

handleDelete(app) ==
  /\ TableShown
  /\ app \in Range(currentApplications)
  /\ applicationToDelete' = app
  /\ showDeleteModal' = TRUE
  /\ UNCHANGED <<now, serverVars, net, jobApplications, loading, error,
                 currentPage, statusFilter, isDeleting, appVars, formVars>>

\* The Delete button of the prompt (disabled while isDeleting).
confirmDelete ==
  /\ showDeleteModal /\ ~isDeleting
  /\ IF applicationToDelete = NoApp
     THEN UNCHANGED <<net, isDeleting>>
     ELSE /\ isDeleting' = TRUE
          /\ Send(Request("delete", "sent", applicationToDelete.id, 0, NoDto,
                          applicationToDelete))
  /\ UNCHANGED <<now, serverVars, jobApplications, loading, error,
                 currentPage, statusFilter, showDeleteModal,
                 applicationToDelete, appVars, formVars>>

DeleteSuccess(r) ==
  /\ r.kind = "delete" /\ r.phase = "resp" /\ r.ok
  /\ jobApplications' = RemoveById(jobApplications, r.app.id)
  /\ showDeleteModal' = FALSE
  /\ applicationToDelete' = NoApp
  /\ isDeleting' = FALSE
  /\ Done(r)
  /\ UNCHANGED <<now, serverVars, loading, error, currentPage, statusFilter,
                 appVars, formVars>>

\* (variant: the earlier error is kept when there is one)
deleteMessageFirst(err) ==
  IF error # "" THEN error ELSE "Failed to delete application: " \o err

\* `Failed to delete application: ${err.message}`
deleteMessage(err) == "Failed to delete application: " \o err

\* (variant: a failed delete leaves the button busy)
DeleteFailBusy(r) ==
  /\ r.kind = "delete" /\ r.phase = "resp" /\ ~r.ok
  /\ error' = deleteMessage(r.err)
  /\ Done(r)
  /\ UNCHANGED <<now, serverVars, jobApplications, loading, currentPage,
                 statusFilter, showDeleteModal, applicationToDelete,
                 isDeleting, appVars, formVars>>

DeleteFail(r) ==
  /\ r.kind = "delete" /\ r.phase = "resp" /\ ~r.ok
  /\ error' = deleteMessage(r.err)
  /\ isDeleting' = FALSE
  /\ Done(r)
  /\ UNCHANGED <<now, serverVars, jobApplications, loading, currentPage,
                 statusFilter, showDeleteModal, applicationToDelete, appVars,
                 formVars>>

\* The prompt's Cancel button (disabled while isDeleting) and the modal's
\* onHide (close button, Escape, click on the backdrop; never disabled).
cancelDelete ==
  /\ showDeleteModal
  /\ showDeleteModal' = FALSE
  /\ applicationToDelete' = NoApp
  /\ UNCHANGED <<now, serverVars, net, jobApplications, loading, error,
                 currentPage, statusFilter, isDeleting, appVars, formVars>>

\* Pagination: an item 1..totalPages, Prev (disabled on page 1), Next
\* (disabled on page totalPages); shown when totalPages > 1.
PageTargets ==
  (1..totalPages)
    \cup (IF currentPage # 1 THEN {currentPage - 1} ELSE {})
    \cup (IF currentPage # totalPages THEN {currentPage + 1} ELSE {})

handlePageChange(page) ==
  /\ TableShown
  /\ totalPages > 1
  /\ page \in PageTargets /\ page # currentPage /\ page <= MaxPage
  /\ currentPage' = page
  /\ UNCHANGED <<now, serverVars, net, jobApplications, loading, error,
                 statusFilter, showDeleteModal, applicationToDelete,
                 isDeleting, appVars, formVars>>

\* The filter select's onChange, with the effect on [statusFilter]
\* (setCurrentPage(1)) that follows it.
\* (variant: the page is kept)
PageKept(oldFilter, newFilter, page) == page

PageAfterFilter(oldFilter, newFilter, page) ==
  IF newFilter # oldFilter THEN 1 ELSE page

setStatusFilter(f) ==
  /\ TableShown
  /\ f \in {NoFilter} \cup ApplicationStatus /\ f # statusFilter
  /\ statusFilter' = f
  /\ currentPage' = PageAfterFilter(statusFilter, f, currentPage)
  /\ UNCHANGED <<now, serverVars, net, jobApplications, loading, error,
                 showDeleteModal, applicationToDelete, isDeleting, appVars,
                 formVars>>

\* The error alert's onClose
dismissError ==
  /\ TableShown
  /\ error # ""
  /\ error' = ""
  /\ UNCHANGED <<now, serverVars, net, jobApplications, loading,
                 currentPage, statusFilter, showDeleteModal,
                 applicationToDelete, isDeleting, appVars, formVars>>

\* ------------------------------------------------------------------------
\* JobApplicationForm: validation
\* ------------------------------------------------------------------------
\* (variant: the length is taken before trimming)
RequiredOrRawLength(text, required, tooLong) ==
  IF Trim(text) = <<>> THEN required
  ELSE IF Len(text) > MaxLength THEN tooLong
  ELSE ""

RequiredOrLength(text, required, tooLong) ==
  IF Trim(text) = <<>> THEN required
  ELSE IF Len(Trim(text)) > MaxLength THEN tooLong
  ELSE ""

\* (variant: only a status below the enumeration is refused)
StatusErrorBelow(status) ==
  IF status < 1 THEN "Please select a valid status"
  ELSE ""

\* !Object.values(ApplicationStatus).includes(formData.status)
StatusError(status) ==
  IF status \notin ApplicationStatus THEN "Please select a valid status"
  ELSE ""

\* t is the instant validation runs at (new Date())
DateError(date, t) ==
  IF date = NoDate THEN "Date applied is required"
  ELSE LET selectedDate == ParseDate(date)
           today == t
           oneYearAgo == OneYearAgo(t)
       IN  IF selectedDate > today
           THEN "Date applied cannot be in the future"
           ELSE IF selectedDate < oneYearAgo
                THEN "Date applied cannot be more than one year ago"
                ELSE ""

\* newErrors of validateForm
validateForm(fd, t) ==
  [company |-> RequiredOrLength(fd.company, "Company name is required",
                   "Company name must be 200 characters or less"),
   position |-> RequiredOrLength(fd.position, "Position is required",
                   "Position must be 200 characters or less"),
   status |-> StatusError(fd.status),
   dateApplied |-> DateError(fd.dateApplied, t),
   general |-> ""]

\* Object.keys(newErrors).length === 0
IsValid(newErrors) == newErrors = NoErrors

\* the create / update DTO handleSubmit builds
SubmitDto(fd) ==
  Dto(Trim(fd.company), Trim(fd.position), fd.status,
      ParseDate(fd.dateApplied))

\* ------------------------------------------------------------------------
\* App: handlers, each with the effects of the form and the table that the
\* changed props trigger
\* ------------------------------------------------------------------------
handleAddNew ==
  /\ PageFree
  /\ editingApplication' = NoApp
  /\ isFormVisible' = TRUE
  /\ SetForm(FormEffects(editingApplication, NoApp, isFormVisible, TRUE,
                         FormState))
  /\ UNCHANGED <<now, serverVars, net, tableVars, resetFilter,
                 newApplication, updatedApplication>>

handleEdit(app) ==
  /\ TableShown
  /\ app \in Range(currentApplications)
  /\ editingApplication' = app
  /\ isFormVisible' = TRUE
  /\ SetForm(FormEffects(editingApplication, app, isFormVisible, TRUE,
                         FormState))
  /\ UNCHANGED <<now, serverVars, net, tableVars, resetFilter,
                 newApplication, updatedApplication>>

\* handleFormSuccess as the closure of the submitting render sees it:
\* editing is that render's editingApplication.  A new record goes to the
\* table through newApplication and the filter is reset through
\* resetFilter; an updated one goes through updatedApplication.
handleFormSuccess(app, editing) ==
  /\ isFormVisible' = FALSE
  /\ editingApplication' = NoApp
  /\ IF editing = NoApp
     THEN /\ newApplication' = app
          /\ resetFilter' = ~resetFilter
          /\ statusFilter' = NoFilter
          /\ currentPage' = PageAfterFilter(statusFilter, NoFilter,
                                            currentPage)
          /\ jobApplications' = InsertAtFront(jobApplications, app)
          /\ UNCHANGED updatedApplication
     ELSE /\ updatedApplication' = app
          /\ jobApplications' = ReplaceById(jobApplications, app)
          /\ UNCHANGED <<newApplication, resetFilter, statusFilter,
                         currentPage>>

\* the 100 ms timers that clear the one-shot props
clearNewApplication ==
  /\ newApplication # NoApp
  /\ newApplication' = NoApp
  /\ UNCHANGED <<now, serverVars, net, tableVars, isFormVisible,
                 editingApplication, resetFilter, updatedApplication,
                 formVars>>

clearUpdatedApplication ==
  /\ updatedApplication # NoApp
  /\ updatedApplication' = NoApp
  /\ UNCHANGED <<now, serverVars, net, tableVars, isFormVisible,
                 editingApplication, resetFilter, newApplication, formVars>>

\* ------------------------------------------------------------------------
\* JobApplicationForm: handlers
\* ------------------------------------------------------------------------
FormFields == {"company", "position", "status", "dateApplied"}

\* the inputs are disabled while isSubmitting
handleInputChange(name, value) ==
  /\ isFormVisible /\ ~isSubmitting
  /\ name \in FormFields
  /\ value # formData[name]
  /\ formData' = [formData EXCEPT ![name] = value]
  /\ errors' = IF errors[name] # "" THEN [errors EXCEPT ![name] = ""]
               ELSE errors
  /\ UNCHANGED <<now, serverVars, net, tableVars, appVars, isSubmitting,
                 isEdit>>

\* (variant: every submission is a create)
SubmitsUpdateNever == FALSE

\* if (isEdit && jobApplication)
SubmitsUpdate == isEdit /\ editingApplication # NoApp

\* the submit button is disabled while isSubmitting
handleSubmit ==
  LET newErrors == validateForm(formData, now) IN
  /\ isFormVisible /\ ~isSubmitting
  /\ IF ~IsValid(newErrors)
     THEN /\ errors' = newErrors
          /\ UNCHANGED <<net, isSubmitting>>
     ELSE /\ isSubmitting' = TRUE
          /\ errors' = NoErrors
          /\ IF SubmitsUpdate
             THEN Send(Request("update", "sent", editingApplication.id, 0,
                               SubmitDto(formData), editingApplication))
             ELSE Send(Request("create", "sent", 0, 0, SubmitDto(formData),
                               editingApplication))
  /\ UNCHANGED <<now, serverVars, tableVars, appVars, formData, isEdit>>

CreateSuccess(r) ==
  LET f == [FormState EXCEPT !.formData = DefaultFormData(now),
                             !.isSubmitting = FALSE]
  IN
  /\ r.kind = "create" /\ r.phase = "resp" /\ r.ok
  /\ handleFormSuccess(r.result, r.app)
  /\ SetForm(FormEffects(editingApplication, NoApp, isFormVisible, FALSE, f))
  /\ Done(r)
  /\ UNCHANGED <<now, serverVars, loading, error, showDeleteModal,
                 applicationToDelete, isDeleting>>

UpdateSuccess(r) ==
  LET f == [FormState EXCEPT !.isSubmitting = FALSE]
  IN
  /\ r.kind = "update" /\ r.phase = "resp" /\ r.ok
  /\ handleFormSuccess(r.result, r.app)
  /\ SetForm(FormEffects(editingApplication, NoApp, isFormVisible, FALSE, f))
  /\ Done(r)
  /\ UNCHANGED <<now, serverVars, loading, error, showDeleteModal,
                 applicationToDelete, isDeleting>>

SubmitFail(r) ==
  /\ r.kind \in {"create", "update"} /\ r.phase = "resp" /\ ~r.ok
  /\ errors' = [NoErrors EXCEPT !.general = r.err]
  /\ isSubmitting' = FALSE
  /\ Done(r)
  /\ UNCHANGED <<now, serverVars, tableVars, appVars, formData, isEdit>>

\* The Cancel button (disabled while isSubmitting) and the modal's onHide
\* (close button, Escape, click on the backdrop; never disabled).
handleCancel ==
  LET f == [FormState EXCEPT !.formData = DefaultFormData(now),
                             !.errors = NoErrors]
  IN
  /\ isFormVisible
  /\ isFormVisible' = FALSE
  /\ editingApplication' = NoApp
  /\ SetForm(FormEffects(editingApplication, NoApp, isFormVisible, FALSE, f))
  /\ UNCHANGED <<now, serverVars, net, tableVars, resetFilter,
                 newApplication, updatedApplication>>

\* ------------------------------------------------------------------------
\* The application
\* ------------------------------------------------------------------------
\* what the user picks and types
StatusChoices == {Applied, UnderReview}
FilterChoices == {NoFilter, Applied, UnderReview}
TextChoices == {<<"c">>}

Typing ==
  \/ \E v \in TextChoices : handleInputChange("company", v)
  \/ \E v \in TextChoices : handleInputChange("position", v)

LoadNext ==
  \/ \E r \in InFlight : ServerGetAll(r)
  \/ \E r \in InFlight : LoadSuccess(r)
  \/ \E r \in InFlight : LoadFail(r)

Fails == \E r \in InFlight, e \in Failures : RequestFails(r, e)

\* The list view: load, delete with confirmation, error banner.
Next ==
  \/ LoadNext
  \/ Fails
  \/ \E r \in InFlight : ServerDelete(r)
  \/ \E app \in Range(jobApplications) : handleDelete(app)
  \/ confirmDelete /\ Within(MaxPending)
  \/ \E r \in InFlight : DeleteSuccess(r)
  \/ \E r \in InFlight : DeleteFail(r)
  \/ cancelDelete
  \/ dismissError

Spec == Init /\ [][Next]_vars

\* The list view: load, inline status change, error banner.
NextStatus ==
  \/ LoadNext
  \/ Fails
  \/ \E r \in InFlight : ServerGetById(r)
  \/ \E r \in InFlight : ServerPut(r)
  \/ \E app \in Range(jobApplications), s \in StatusChoices :
       handleStatusChange(app, s) /\ Within(MaxPending)
  \/ \E r \in InFlight : updateStatusPut(r)
  \/ \E r \in InFlight : StatusChangeSuccess(r)
  \/ \E r \in InFlight : StatusChangeFail(r)

SpecStatus == Init /\ [][NextStatus]_vars

\* Creating a record from the form, with the list, its filter and its
\* pages behind it.  The server starts empty or with the shortest list that
\* has two pages.
InitCreate == InitWith({Now0}, {ServerWith(0), ServerWith(pageSize + 1)})

NextCreate ==
  \/ LoadNext
  \/ Fails
  \/ \E r \in InFlight : ServerPost(r)
  \/ handleAddNew
  \/ Typing
  \/ handleSubmit /\ Within(MaxPending)
  \/ \E r \in InFlight : CreateSuccess(r)
  \/ \E r \in InFlight : SubmitFail(r)
  \/ handleCancel
  \/ clearNewApplication
  \/ \E page \in 1..MaxPage : handlePageChange(page)
  \/ \E f \in FilterChoices : setStatusFilter(f)

SpecCreate == InitCreate /\ [][NextCreate]_vars

\* The derived view over lists of every length up to MaxRows: load, filter
\* and pages.
InitView == InitWith({Now0}, {ServerWith(n) : n \in 0..MaxRows})

NextView ==
  \/ LoadNext
  \/ Fails
  \/ \E page \in 1..MaxPage : handlePageChange(page)
  \/ \E f \in {NoFilter} \cup ApplicationStatus : setStatusFilter(f)

SpecView == InitView /\ [][NextView]_vars

\* Inline status changes against a server that another client writes to.
NextLostUpdate ==
  \/ NextStatus
  \/ \E id \in 1..MaxInit : ExternalModify(id, <<"x">>)

SpecLostUpdate == Init /\ [][NextLostUpdate]_vars

\* The date rule of the form at several instants: a midnight, a noon, the
\* noon after a 29 February and the noon of a 1 January.  The user picks dates around
\* today and around the day one year before today.
NowChoices ==
  {ParseDate(<<2024, 6, 15>>), Noon(<<2024, 6, 15>>), Noon(<<2024, 3, 1>>),
   Noon(<<2025, 1, 1>>)}

\* the calendar date k days after date d
DaysAfter(d, k) == DateOfDay(DayNumber(d) + k)

\* the calendar date one year before date d
YearBefore(d) == DateOfDay(DayNumber(<<d[1] - 1, d[2], d[3]>>))

DateChoices(t) ==
  {NoDate, Today(t), DaysAfter(Today(t), 1), DaysAfter(Today(t), -1),
   YearBefore(Today(t)), DaysAfter(YearBefore(Today(t)), 1),
   DaysAfter(YearBefore(Today(t)), -1)}

InitDate == InitWith(NowChoices, {ServerWith(0)})

NextDate ==
  \/ LoadNext
  \/ Fails
  \/ handleAddNew
  \/ Typing
  \/ \E d \in DateChoices(now) : handleInputChange("dateApplied", d)
  \/ handleSubmit /\ Within(MaxPending)
  \/ \E r \in InFlight : SubmitFail(r)
  \/ handleCancel

SpecDate == InitDate /\ [][NextDate]_vars

\* Validation of drafts typed by the user and of drafts copied from records
\* that another client left on the server: a company of MaxLength
\* characters between two spaces with a status outside the enumeration,
\* and a company of MaxLength + 1 characters.
PaddedRecord ==
  JobApplication(1, <<" ">> \o Rep("a", MaxLength) \o <<" ">>, <<"p">>, 7,
                 Noon(<<2024, 6, 1>>), 0, 0)

LongRecord ==
  JobApplication(2, Rep("a", MaxLength + 1), <<"p">>, Applied,
                 Noon(<<2024, 6, 1>>), 0, 0)

CompanyInputs == {<<" ", " ">>, <<" ", "c", " ">>}
PositionInputs == {<<>>, <<"c">>}
StatusInputs == {Applied}
DateInputs == {NoDate, DaysAfter(Today(Now0), 1), YearBefore(Today(Now0))}

InitValidation == InitWith({Now0}, {<<PaddedRecord, LongRecord>>})

NextValidation ==
  \/ LoadNext
  \/ Fails
  \/ handleAddNew
  \/ \E app \in Range(jobApplications) : handleEdit(app)
  \/ \E v \in CompanyInputs : handleInputChange("company", v)
  \/ \E v \in PositionInputs : handleInputChange("position", v)
  \/ \E v \in StatusInputs : handleInputChange("status", v)
  \/ \E v \in DateInputs : handleInputChange("dateApplied", v)
  \/ handleSubmit /\ Within(MaxPending)
  \/ \E r \in InFlight : SubmitFail(r)
  \/ handleCancel

SpecValidation == InitValidation /\ [][NextValidation]_vars

\* The service on its own: every operation, called with the id of a stored
\* record and with an id the server does not know.
IdChoices == {1, 2}
DtoChoices == {Dto(<<"c">>, <<"p">>, Applied, Noon(<<2024, 6, 1>>))}

InitService == InitWith({Now0}, {ServerWith(1)})

NextService ==
  \/ getAll /\ Within(MaxPending)
  \/ \E id \in IdChoices : getById(id) /\ Within(MaxPending)
  \/ \E dto \in DtoChoices : create(dto) /\ Within(MaxPending)
  \/ \E id \in IdChoices, dto \in DtoChoices : update(id, dto) /\ Within(MaxPending)
  \/ \E id \in IdChoices : delete(id) /\ Within(MaxPending)
  \/ \E id \in IdChoices : updateStatus(id, UnderReview) /\ Within(MaxPending)
  \/ \E r \in InFlight : ServerGetAll(r)
  \/ \E r \in InFlight : ServerGetById(r)
  \/ \E r \in InFlight : ServerPost(r)
  \/ \E r \in InFlight : ServerPut(r)
  \/ \E r \in InFlight : ServerDelete(r)
  \/ Fails
  \/ \E r \in InFlight : updateStatusPut(r)
  \/ \E r \in InFlight : Returns(r)
  \/ \E r \in InFlight : Throws(r)

SpecService == InitService /\ [][NextService]_vars

\* Deleting from a list of two pages: load, pages, delete with
\* confirmation.
InitPages == InitWith({Now0}, {ServerWith(pageSize + 1)})

NextPages ==
  \/ LoadNext
  \/ Fails
  \/ \E page \in 1..MaxPage : handlePageChange(page)
  \/ \E r \in InFlight : ServerDelete(r)
  \/ \E app \in Range(jobApplications) : handleDelete(app)
  \/ confirmDelete /\ Within(MaxPending)
  \/ \E r \in InFlight : DeleteSuccess(r)
  \/ \E r \in InFlight : DeleteFail(r)
  \/ cancelDelete

SpecPages == InitPages /\ [][NextPages]_vars

\* Editing the records of a list of two through the form: edit, type a
\* new company, empty the position, submit, cancel, and the update call
\* behind it.
\* the record the user edits; the one before it stands by
EditChoices == {2}

InitEdit == InitWith({Now0}, {ServerWith(2)})

NextEdit ==
  \/ LoadNext
  \/ Fails
  \/ \E r \in InFlight : ServerPut(r)
  \/ \E app \in Range(jobApplications) :
       app.id \in EditChoices /\ handleEdit(app)
  \/ handleInputChange("company", <<"c">>)
  \/ handleInputChange("position", <<>>)
  \/ handleSubmit /\ Within(MaxPending)
  \/ \E r \in InFlight : UpdateSuccess(r)
  \/ \E r \in InFlight : SubmitFail(r)
  \/ handleCancel
  \/ clearUpdatedApplication

SpecEdit == InitEdit /\ [][NextEdit]_vars

\* The error banner of the list over one record: load, inline status
\* change, delete with confirmation, an edit submitted through the form
\* (retried when it fails), dismiss.
InitErrors == InitWith({Now0}, {ServerWith(1)})

NextErrors ==
  \/ LoadNext
  \/ Fails
  \/ \E r \in InFlight : ServerGetById(r)
  \/ \E r \in InFlight : ServerPut(r)
  \/ \E r \in InFlight : ServerDelete(r)
  \/ \E app \in Range(jobApplications) :
       handleStatusChange(app, UnderReview) /\ Within(MaxPending)
  \/ \E r \in InFlight : updateStatusPut(r)
  \/ \E r \in InFlight : StatusChangeSuccess(r)
  \/ \E r \in InFlight : StatusChangeFail(r)
  \/ \E app \in Range(jobApplications) : handleDelete(app)
  \/ confirmDelete /\ Within(MaxPending)
  \/ \E r \in InFlight : DeleteSuccess(r)
  \/ \E r \in InFlight : DeleteFail(r)
  \/ cancelDelete
  \/ \E app \in Range(jobApplications) : handleEdit(app)
  \/ handleSubmit /\ Within(MaxPending)
  \/ \E r \in InFlight : UpdateSuccess(r)
  \/ \E r \in InFlight : SubmitFail(r)
  \/ clearUpdatedApplication
  \/ dismissError

SpecErrors == InitErrors /\ [][NextErrors]_vars

\* Two inline status changes of one record racing: the user picks
\* UnderReview and, while that call is in flight, Interview.
InitRace == InitWith({Now0}, {ServerWith(1)})

RaceStatus ==
  IF \E r \in InFlight : r.kind = "status" THEN Interview ELSE UnderReview

NextRace ==
  \/ LoadNext
  \/ Fails
  \/ \E r \in InFlight : ServerGetById(r)
  \/ \E r \in InFlight : ServerPut(r)
  \/ \E app \in Range(jobApplications) :
       handleStatusChange(app, RaceStatus) /\ Within(MaxRacing)
  \/ \E r \in InFlight : updateStatusPut(r)
  \/ \E r \in InFlight : StatusChangeSuccess(r)
  \/ \E r \in InFlight : StatusChangeFail(r)

SpecRace == InitRace /\ [][NextRace]_vars

\* Every way a status leaves the client, with every call served: inline
\* status change and edit of a stored record whose status is outside the
\* enumeration, and create through the form on an empty list.
InitTransmit == InitWith({Now0}, {<<>>, <<PaddedRecord>>})

NextTransmit ==
  \/ \E r \in InFlight : ServerGetAll(r)
  \/ \E r \in InFlight : LoadSuccess(r)
  \/ \E r \in InFlight : ServerGetById(r)
  \/ \E r \in InFlight : ServerPut(r)
  \/ \E r \in InFlight : ServerPost(r)
  \/ \E s \in StatusChoices :
       handleStatusChange(PaddedRecord, s) /\ Within(MaxPending)
  \/ \E r \in InFlight : updateStatusPut(r)
  \/ \E r \in InFlight : StatusChangeSuccess(r)
  \/ handleAddNew /\ ~loading /\ jobApplications = <<>>
  \/ handleEdit(PaddedRecord)
  \/ Typing
  \/ handleInputChange("status", UnderReview)
  \/ handleSubmit /\ Within(MaxPending)
  \/ \E r \in InFlight : CreateSuccess(r)
  \/ \E r \in InFlight : UpdateSuccess(r)
  \/ handleCancel
  \/ clearNewApplication
  \/ clearUpdatedApplication

SpecTransmit == InitTransmit /\ [][NextTransmit]_vars

\* Creating records while other calls are in flight: the form opened during
\* the initial load, and closed and reopened during a submission.
InitFormRace == InitWith({Now0}, {ServerWith(0)})

NextFormRace ==
  \/ LoadNext
  \/ Fails
  \/ \E r \in InFlight : ServerPost(r)
  \/ handleAddNew
  \/ Typing
  \/ handleSubmit /\ Within(MaxRacing)
  \/ \E r \in InFlight : CreateSuccess(r)
  \/ \E r \in InFlight : SubmitFail(r)
  \/ handleCancel
  \/ clearNewApplication

SpecFormRace == InitFormRace /\ [][NextFormRace]_vars

\* The busy flags over one record: load, delete with confirmation, an edit
\* submitted through the form; either dialog may be closed while its call
\* is in flight.  Every call in flight is eventually answered
\* or fails (the client's timeout), and the handler of a response that
\* has arrived eventually runs.
InitBusy == InitWith({Now0}, {ServerWith(1)})

NextBusy ==
  \/ LoadNext
  \/ Fails
  \/ \E r \in InFlight : ServerDelete(r)
  \/ \E r \in InFlight : ServerPut(r)
  \/ \E app \in Range(jobApplications) : handleDelete(app)
  \/ confirmDelete /\ Within(MaxPending)
  \/ \E r \in InFlight : DeleteSuccess(r)
  \/ \E r \in InFlight : DeleteFail(r)
  \/ cancelDelete
  \/ \E app \in Range(jobApplications) : handleEdit(app)
  \/ handleSubmit /\ Within(MaxPending)
  \/ \E r \in InFlight : UpdateSuccess(r)
  \/ \E r \in InFlight : SubmitFail(r)
  \/ handleCancel

\* a call of the given kind moves on: it is answered, it fails, or the
\* handler awaiting it runs
Resolves(kind) ==
  \E r \in InFlight :
    /\ r.kind = kind
    /\ \/ ServerGetAll(r) \/ LoadSuccess(r) \/ LoadFail(r)
       \/ ServerDelete(r) \/ DeleteSuccess(r) \/ DeleteFail(r)
       \/ ServerPut(r) \/ UpdateSuccess(r) \/ SubmitFail(r)
       \/ \E e \in Failures : RequestFails(r, e)

SpecBusy ==
  /\ InitBusy /\ [][NextBusy]_vars
  /\ WF_vars(Resolves("getAll"))
  /\ WF_vars(Resolves("delete"))
  /\ WF_vars(Resolves("update"))

\* ------------------------------------------------------------------------
\* Properties
\* ------------------------------------------------------------------------
\* sub holds exactly the elements of list that satisfy Keep, in list order
KeptInOrder(sub, list, Keep(_)) ==
  LET idx == {i \in DOMAIN list : Keep(list[i])} IN
  /\ Len(sub) = Cardinality(idx)
  /\ \A i \in idx : sub[Cardinality({j \in idx : j <= i})] = list[i]

\* the handler of r's final response runs in this step
Completes(r) ==
  /\ BagIn(r, net)
  /\ r.phase \in {"resp", "done"}
  /\ ~(r.kind = "status" /\ r.phase = "resp" /\ r.ok)
  /\ net' = net (-) SetToBag({r})

\* C2: confirmDelete() with a staged record: when the delete call fails the
\* list is unchanged, the error is populated and the prompt is still open
\* with the record that was staged; when it succeeds exactly the records
\* with the staged id are gone, the others are unchanged and in order, and
\* the prompt is closed with no staged record.
C2_ConfirmDelete ==
  [][\A r \in InFlight :
       (r.kind = "delete" /\ Completes(r)) =>
         IF r.ok
         THEN LET Other(app) == app.id # r.app.id IN
              /\ KeptInOrder(jobApplications', jobApplications, Other)
              /\ ~showDeleteModal'
              /\ applicationToDelete' = NoApp
         ELSE /\ jobApplications' = jobApplications
              /\ error' # ""
              /\ showDeleteModal'
              /\ applicationToDelete' = r.app]_vars

\* C3: a successful inline status change sets the status of the local
\* record with that id and nothing else: its other fields keep their local
\* values whatever record the server returned, the other records, the
\* order and the length of the list are unchanged.
C3_StatusMerge ==
  [][\A r \in InFlight :
       (r.kind = "status" /\ r.ok /\ Completes(r)) =>
         /\ Len(jobApplications') = Len(jobApplications)
         /\ \A i \in DOMAIN jobApplications :
              LET old == jobApplications[i]
                  new == jobApplications'[i]
              IN  IF old.id = r.id
                  THEN /\ new.status = r.status
                       /\ new.id = old.id
                       /\ new.company = old.company
                       /\ new.position = old.position
                       /\ new.dateApplied = old.dateApplied
                       /\ new.createdAt = old.createdAt
                       /\ new.updatedAt = old.updatedAt
                  ELSE new = old]_vars

\* an inline status change has been merged into a list of two records, and
\* the server's copy (the record it returned) has a later updatedAt than
\* the local one
C3_Witness ==
  /\ Len(jobApplications) = 2
  /\ \E i \in DOMAIN jobApplications :
       LET app == jobApplications[i] IN
       /\ app.status # StatusOf(app.id)
       /\ Has(srv, app.id)
       /\ Find(srv, app.id).updatedAt > app.updatedAt
       /\ Find(srv, app.id).status = app.status

\* C1: when a create succeeds with the server's record R, the list
\* afterwards is R followed by the previous list: R at index 0, one record
\* more, every earlier record unchanged and in the same order.
C1_CreatePrepends ==
  [][\A r \in InFlight :
       (r.kind = "create" /\ r.ok /\ Completes(r)) =>
         /\ Len(jobApplications') = Len(jobApplications) + 1
         /\ jobApplications'[1] = r.result
         /\ \A i \in DOMAIN jobApplications :
              jobApplications'[i + 1] = jobApplications[i]]_vars

\* a created record (server-assigned id and createdAt, the typed company)
\* stands in front of the records that were loaded
C1_Witness ==
  /\ Len(jobApplications) > pageSize + 1
  /\ jobApplications[1].id > pageSize + 1
  /\ jobApplications[1].createdAt > 0
  /\ jobApplications[1].company = <<"c">>
  /\ jobApplications[2] = ServerRecord(1)

\* C7: the filtered view is the records with the filter's status in their
\* original order, it is the whole list under no filter, and it is always
\* a subset of the list.
C7_Filter ==
  LET Matches(app) == app.status = statusFilter IN
  /\ statusFilter # NoFilter =>
       KeptInOrder(filteredApplications, jobApplications, Matches)
  /\ statusFilter = NoFilter => filteredApplications = jobApplications
  /\ Range(filteredApplications) \subseteq Range(jobApplications)

\* a filter that keeps some records and drops others
C7_Witness ==
  /\ statusFilter = UnderReview
  /\ Len(filteredApplications) >= 2
  /\ Len(filteredApplications) < Len(jobApplications)

\* C8: with N filtered records totalPages is ceil(N / 5) (0 for N = 0) and
\* page p shows the filtered records at positions (p-1)*5+1 .. min(p*5, N)
\* in order; of 12 records page 1 shows the first five and page 3 the last
\* two.
C8_Pagination ==
  LET N == Len(filteredApplications)
      first == (currentPage - 1) * 5 + 1
      last == Min(currentPage * 5, N)
  IN
  /\ totalPages * 5 >= N
  /\ (totalPages - 1) * 5 < N \/ (N = 0 /\ totalPages = 0)
  /\ Len(currentApplications) = Max(last - first + 1, 0)
  /\ \A j \in 1..Len(currentApplications) :
       currentApplications[j] = filteredApplications[first + j - 1]
  /\ (N = 12 /\ statusFilter = NoFilter /\ currentPage = 1) =>
       [j \in DOMAIN currentApplications |-> currentApplications[j].id]
         = <<1, 2, 3, 4, 5>>
  /\ (N = 12 /\ statusFilter = NoFilter /\ currentPage = 3) =>
       [j \in DOMAIN currentApplications |-> currentApplications[j].id]
         = <<11, 12>>

\* page 3 of 12 records
C8_Witness ==
  /\ Len(filteredApplications) = 12
  /\ currentPage = 3
  /\ Len(currentApplications) = 2

\* C9: every change of the status filter leaves the current page at 1.
C9_FilterResetsPage ==
  [][statusFilter' # statusFilter => currentPage' = 1]_vars

\* a filter has been set on a list of two pages
C9_Witness ==
  /\ statusFilter # NoFilter
  /\ Len(jobApplications) > pageSize
  /\ currentPage = 1

\* C10: updateStatus reads, then writes: the PUT carries the company,
\* position and dateApplied that the GET fetched with only the status
\* replaced, and the server's record after the PUT holds those fetched
\* values whatever it held when the PUT arrived.
C10_ReadModifyWrite ==
  \A r \in InFlight :
    r.kind = "status" =>
      /\ r.phase = "put" =>
           /\ r.dto.company = r.app.company
           /\ r.dto.position = r.app.position
           /\ r.dto.dateApplied = r.app.dateApplied
           /\ r.dto.status = r.status
      /\ (r.phase = "done" /\ r.replaced # NoApp) =>
           /\ r.result.company = r.app.company
           /\ r.result.position = r.app.position
           /\ r.result.dateApplied = r.app.dateApplied
           /\ r.result.status = r.status

\* a lost update: the record was rewritten by another client between the
\* GET and the PUT, and the PUT put the fetched company back
C10_Witness ==
  \E r \in InFlight :
    /\ r.kind = "status" /\ r.phase = "done" /\ r.ok
    /\ r.replaced.company = <<"x">>
    /\ r.replaced.updatedAt > r.app.updatedAt
    /\ r.app.company = <<"a">>
    /\ Has(srv, r.id)
    /\ Find(srv, r.id).company = <<"a">>

\* handleSubmit runs in this step: from an open, idle form it either
\* starts a submission or leaves field errors, and keeps the draft
SubmitAttempt ==
  /\ isFormVisible /\ ~isSubmitting
  /\ isFormVisible'
  /\ formData' = formData
  /\ \/ isSubmitting'
     \/ errors' # errors /\ errors' # NoErrors /\ errors'.general = ""

\* the date rule as specified, on calendar dates: missing, later than the
\* current date, or earlier than the day one year before the current date
DateRuleViolated(d, t) ==
  \/ d = NoDate
  \/ DayNumber(d) > DayNumber(Today(t))
  \/ DayNumber(d) < DayNumber(YearBefore(Today(t)))

\* C4: a missing date, a date after the current date and a date earlier
\* than one year before the current date are errors; the date exactly one
\* year before the current date and every date from there to the current
\* date are accepted.
C4_DateRule ==
  [][SubmitAttempt =>
       (errors'.dateApplied # "" <=>
          DateRuleViolated(formData.dateApplied, now))]_vars

\* what trim leaves of a text, stated on positions: the text from its
\* first to its last character that is not a space
Trimmed(text) ==
  LET n == Len(text)
      Blank == \A k \in 1..n : text[k] = " "
      first == CHOOSE k \in 1..n :
                 text[k] # " " /\ \A m \in 1..(k - 1) : text[m] = " "
      last == CHOOSE k \in 1..n :
                text[k] # " " /\ \A m \in (k + 1)..n : text[m] = " "
  IN  IF Blank THEN <<>> ELSE [k \in 1..(last - first + 1) |-> text[first + k - 1]]

TextRuleViolated(text) ==
  Len(Trimmed(text)) = 0 \/ Len(Trimmed(text)) > 200

RuleViolated(field) ==
  IF field = "company" THEN TextRuleViolated(formData.company)
  ELSE IF field = "position" THEN TextRuleViolated(formData.position)
  ELSE IF field = "status" THEN formData.status \notin 1..6
  ELSE DateRuleViolated(formData.dateApplied, now)

\* C5: a submit attempt on a draft that violates a rule issues no request,
\* leaves the form open in the same mode and leaves an error for every
\* field whose rule is violated and for no other field.
C5_InvalidSubmit ==
  [][(SubmitAttempt /\ \E field \in FormFields : RuleViolated(field)) =>
       /\ net' = net
       /\ ~isSubmitting'
       /\ isEdit' = isEdit
       /\ editingApplication' = editingApplication
       /\ \A field \in FormFields :
            errors'[field] # "" <=> RuleViolated(field)]_vars

\* C6: company and position are in error exactly when the trimmed text is
\* empty or longer than 200 characters, whatever the length of the text as
\* typed, and a request carries the trimmed texts.
C6_TrimmedText ==
  [][SubmitAttempt =>
       /\ \A field \in {"company", "position"} :
            errors'[field] # "" <=> TextRuleViolated(formData[field])
       /\ Len(Trimmed(formData.company)) = 0 =>
            errors'.company = "Company name is required"
       /\ Len(Trimmed(formData.position)) = 0 =>
            errors'.position = "Position is required"
       /\ Len(Trimmed(formData.company)) > 200 =>
            errors'.company = "Company name must be 200 characters or less"
       /\ Len(Trimmed(formData.position)) > 200 =>
            errors'.position = "Position must be 200 characters or less"
       /\ \A r \in BagToSet(net') :
            (~BagIn(r, net) /\ r.kind \in {"create", "update"}) =>
              /\ r.dto.company = Trimmed(formData.company)
              /\ r.dto.position = Trimmed(formData.position)]_vars

\* an update is in flight for a draft whose company is longer than 200
\* characters as typed and 200 characters long once trimmed
C6_Witness ==
  /\ isSubmitting
  /\ Len(formData.company) > 200
  /\ \E r \in InFlight :
       /\ r.kind = "update" /\ r.phase = "sent"
       /\ Len(r.dto.company) = 200
       /\ r.dto.company # formData.company

\* the HTTP requests that await their response
Outstanding(bag) ==
  LET waiting == {r \in BagToSet(bag) : r.phase \in {"sent", "put"}}
  IN  BagCardinality([r \in waiting |-> bag[r]])

\* C11: no operation retries.  The number of requests awaiting a response
\* grows only by one, through a new call or through the PUT that follows
\* the answered GET of updateStatus; the server changes only while it
\* answers one request; a rejection stays until it is thrown to the caller
\* and nothing is sent in its place, so an updateStatus whose GET failed
\* never sends its PUT.
C11_NoRetry ==
  [][/\ Outstanding(net') > Outstanding(net) =>
          /\ Outstanding(net') = Outstanding(net) + 1
          /\ \/ \E q \in BagToSet(net') :
                  /\ q.phase = "sent" /\ q.ok
                  /\ net' = net (+) SetToBag({q})
             \/ \E r \in InFlight, q \in BagToSet(net') :
                  /\ r.kind = "status" /\ r.phase = "resp" /\ r.ok
                  /\ q.kind = "status" /\ q.phase = "put" /\ q.id = r.id
                  /\ net' = (net (-) SetToBag({r})) (+) SetToBag({q})
     /\ serverVars' # serverVars => Outstanding(net') = Outstanding(net) - 1
     /\ \A r \in InFlight :
          (~r.ok /\ CopiesIn(r, net') < CopiesIn(r, net)) =>
             /\ r.phase \in {"resp", "done"}
             /\ net' = net (-) SetToBag({r})]_vars

\* the GET of an updateStatus has failed and the failure awaits the caller
C11_Witness ==
  \E r \in InFlight : r.kind = "status" /\ r.phase = "resp" /\ ~r.ok

\* values around the enumeration, on both sides
LabelInputs == -2..9

\* C12: getStatusLabel gives the six statuses six different non-empty
\* labels and every other value "Unknown"; the caption of a filtered list
\* carries the label of the filter.
C12_StatusLabel ==
  /\ \A a \in ApplicationStatus :
       /\ getStatusLabel(a) # ""
       /\ getStatusLabel(a) # "Unknown"
       /\ \A b \in ApplicationStatus :
            a # b => getStatusLabel(a) # getStatusLabel(b)
  /\ \A v \in LabelInputs \ (1..6) : getStatusLabel(v) = "Unknown"
  /\ statusFilter # NoFilter =>
       /\ statusFilter \in 1..6
       /\ filterCaption \notin {"", " (filtered by Unknown)", " (filtered by )"}

\* the list is shown filtered by the last status of the enumeration
C12_Witness ==
  /\ ~loading
  /\ statusFilter = 6
  /\ filterCaption = " (filtered by Withdrawn)"

\* C13: the current page lies between 1 and the number of pages (1 when
\* there is no page), so a page of a non-empty filtered list is not empty.
C13_PageInBounds ==
  /\ 1 <= currentPage /\ currentPage <= Max(1, totalPages)
  /\ Len(filteredApplications) > 0 => Len(currentApplications) > 0

Ids(list) == {list[i].id : i \in DOMAIN list}

\* C14: the id of a record leaves the list only in the step that completes
\* a successful delete call for that id; opening the prompt issues no call
\* and leaves the list alone; closing it without a completed delete issues
\* no call, leaves the list alone and leaves no staged record.
C14_DeleteOnlyOnSuccess ==
  [][/\ \A id \in Ids(jobApplications) \ Ids(jobApplications') :
          \E r \in InFlight :
            r.kind = "delete" /\ r.id = id /\ r.ok /\ Completes(r)
     /\ (~showDeleteModal /\ showDeleteModal') =>
          /\ net' = net
          /\ jobApplications' = jobApplications
          /\ applicationToDelete' \in Range(jobApplications)
     /\ (showDeleteModal /\ ~showDeleteModal'
           /\ ~\E r \in InFlight : r.kind = "delete" /\ Completes(r)) =>
          /\ net' = net
          /\ jobApplications' = jobApplications
          /\ applicationToDelete' = NoApp]_vars

\* the first of two records is gone from the list and from the server, the
\* prompt is closed and no error is shown
C14_Witness ==
  /\ ~loading /\ error = "" /\ ~showDeleteModal
  /\ Ids(jobApplications) = {2}
  /\ Ids(srv) = {2}
  /\ net = EmptyBag

\* C15: when the create or update call of a submission fails, the form is
\* open on the draft it was submitted from (create, or edit of the same
\* record), not submitting, with a general error and with the fields as
\* they were submitted; the success callback has not run and the list is
\* unchanged.
C15_SubmitFailKeepsDraft ==
  [][\A r \in InFlight :
       (r.kind \in {"create", "update"} /\ ~r.ok /\ Completes(r)) =>
         /\ isFormVisible' /\ ~isSubmitting'
         /\ errors'.general # ""
         /\ formData' = formData
         /\ Trimmed(formData'.company) = r.dto.company
         /\ Trimmed(formData'.position) = r.dto.position
         /\ formData'.status = r.dto.status
         /\ formData'.dateApplied # NoDate
         /\ ParseDate(formData'.dateApplied) = r.dto.dateApplied
         /\ IF r.kind = "update"
            THEN isEdit' /\ editingApplication' = r.app
            ELSE ~isEdit' /\ editingApplication' = NoApp
         /\ newApplication' = newApplication
         /\ updatedApplication' = updatedApplication
         /\ jobApplications' = jobApplications]_vars

\* a create or update request that this step puts in flight
Issued(q) ==
  /\ q.kind \in {"create", "update"} /\ q.phase = "sent"
  /\ CopiesIn(q, net') > CopiesIn(q, net)

\* C16: a create or update request is issued only by a submit attempt on
\* fields that violate no rule; a submit that passes validation issues
\* exactly one request: in edit mode an update for the id of the edited
\* record, in create mode a create.
C16_RequestMatchesDraft ==
  [][/\ \A q \in BagToSet(net') :
          Issued(q) =>
            /\ SubmitAttempt
            /\ \A field \in FormFields : ~RuleViolated(field)
     /\ (SubmitAttempt /\ isSubmitting') =>
          \E q \in BagToSet(net') :
            /\ Issued(q)
            /\ net' = net (+) SetToBag({q})
            /\ q.dto.status = formData.status
            /\ IF editingApplication # NoApp
               THEN isEdit /\ q.kind = "update" /\ q.id = editingApplication.id
               ELSE ~isEdit /\ q.kind = "create"]_vars

\* a create is in flight for the draft of the open form
C16_Witness ==
  /\ isFormVisible /\ isSubmitting /\ ~isEdit
  /\ editingApplication = NoApp
  /\ \E r \in InFlight :
       /\ r.kind = "create" /\ r.phase = "sent"
       /\ r.dto.company = <<"c">>
       /\ r.dto.position = formData.position

\* the fields a fresh create draft shows: no company, no position, status
\* Applied and the calendar day that holds the current instant
DefaultsShown(fd) ==
  /\ fd.company = <<>> /\ fd.position = <<>>
  /\ fd.status = 1
  /\ fd.dateApplied # NoDate
  /\ DayNumber(fd.dateApplied) * TicksPerDay <= now
  /\ now < (DayNumber(fd.dateApplied) + 1) * TicksPerDay

NoErrorShown ==
  \A field \in FormFields \cup {"general"} : errors[field] = ""

\* the form closes in this step and no successful submission completes
CancelStep ==
  /\ isFormVisible /\ ~isFormVisible'
  /\ ~\E r \in InFlight :
        r.kind \in {"create", "update"} /\ r.ok /\ Completes(r)

\* C17: a cancel, from a create draft, an edit draft or a submission in
\* flight, leaves the form closed with no edited record, the default
\* fields and no error, general error included.
C17_CancelClears ==
  [][CancelStep =>
       /\ editingApplication' = NoApp
       /\ DefaultsShown(formData')
       /\ NoErrorShown'
       /\ ~isSubmitting'
       /\ net' = net]_vars

\* the form was closed while its update was in flight
C17_Witness ==
  /\ ~isFormVisible /\ ~isSubmitting
  /\ DefaultsShown(formData) /\ NoErrorShown
  /\ \E r \in InFlight : r.kind = "update" /\ r.phase = "sent"

\* C18: whenever the closed form opens for a new record it shows the
\* default fields and no field error or general error.
C18_CreateDraftFresh ==
  [][(~isFormVisible /\ isFormVisible' /\ editingApplication' = NoApp) =>
       /\ ~isEdit'
       /\ DefaultsShown(formData')
       /\ NoErrorShown']_vars

\* a record whose id no record of the list has
AbsentRecord ==
  JobApplication(99, <<"x">>, <<"x">>, Applied, Noon(<<2024, 6, 1>>), 0, 0)

\* C19: when an update succeeds with the server's record R, the list
\* afterwards has R wherever a record had R's id and every other record
\* where it was, with the same length; with no record of R's id the list
\* is unchanged, as it is when the effect runs on a record of an id the
\* list does not hold.
C19_UpdateReplacesInPlace ==
  /\ [](ReplaceById(jobApplications, AbsentRecord) = jobApplications)
  /\ [][\A r \in InFlight :
          (r.kind = "update" /\ r.ok /\ Completes(r)) =>
            /\ Len(jobApplications') = Len(jobApplications)
            /\ \A i \in DOMAIN jobApplications :
                 jobApplications'[i] =
                   IF jobApplications[i].id = r.result.id THEN r.result
                   ELSE jobApplications[i]
            /\ (r.result.id \notin Ids(jobApplications)) =>
                 jobApplications' = jobApplications]_vars

\* the second record carries the typed company and the server's
\* updatedAt, behind the first record as loaded
C19_Witness ==
  /\ Len(jobApplications) = 2
  /\ jobApplications[1] = ServerRecord(1)
  /\ jobApplications[2].id = 2
  /\ jobApplications[2].company = <<"c">>
  /\ jobApplications[2].updatedAt > 0
  /\ ~isFormVisible

\* C20: entering edit mode copies the fields of the record into the form
\* and leaves the list alone; the list changes only when it is loaded or
\* when an update succeeds, and then only in records of the updated id, so
\* typing, a failed validation, a failed submission and a cancel change no
\* record.
C20_EditsAreStaged ==
  [][/\ (editingApplication' # editingApplication
           /\ editingApplication' # NoApp) =>
          /\ editingApplication' \in Range(jobApplications)
          /\ isEdit'
          /\ formData'.company = editingApplication'.company
          /\ formData'.position = editingApplication'.position
          /\ formData'.status = editingApplication'.status
          /\ formData'.dateApplied # NoDate
          /\ DayNumber(formData'.dateApplied) * TicksPerDay
               <= editingApplication'.dateApplied
          /\ editingApplication'.dateApplied
               < (DayNumber(formData'.dateApplied) + 1) * TicksPerDay
          /\ jobApplications' = jobApplications
     /\ jobApplications' # jobApplications =>
          \E r \in InFlight :
            /\ r.ok /\ Completes(r)
            /\ \/ r.kind = "getAll"
               \/ /\ r.kind = "update"
                  /\ Len(jobApplications') = Len(jobApplications)
                  /\ \A i \in DOMAIN jobApplications :
                       jobApplications[i].id # r.id =>
                         jobApplications'[i] = jobApplications[i]]_vars

\* after a failed submission the open edit form holds a typed company
\* while the edited record in the list still has the loaded one
C20_Witness ==
  /\ isFormVisible /\ isEdit /\ ~isSubmitting
  /\ errors.general # ""
  /\ formData.company = <<"c">>
  /\ editingApplication \in Range(jobApplications)
  /\ editingApplication.company = <<"a">>
  /\ jobApplications = ServerWith(2)

\* what the list shows when the call of the given kind fails with err
ListMessage(kind, err) ==
  IF kind = "getAll" THEN err
  ELSE IF kind = "status" THEN "Failed to update status: " \o err
  ELSE "Failed to delete application: " \o err

\* C21: the list holds one error string.  A failing load, status change or
\* delete replaces it by its own message whatever it was; apart from that
\* it changes only when the user dismisses it, so no successful status
\* change, delete or update and nothing the form does touches it.
C21_SingleError ==
  [][/\ \A r \in InFlight :
          (r.kind \in {"getAll", "status", "delete"} /\ ~r.ok
             /\ Completes(r)) =>
            error' = ListMessage(r.kind, r.err)
     /\ error' # error =>
          \/ \E r \in InFlight :
               /\ r.kind \in {"getAll", "status", "delete"} /\ ~r.ok
               /\ Completes(r)
          \/ /\ error' = ""
             /\ net' = net
             /\ jobApplications' = jobApplications]_vars

\* the error of a failed status change is still shown after the record it
\* was about has been deleted
C21_Witness ==
  /\ ~loading /\ net = EmptyBag
  /\ jobApplications = <<>> /\ srv = <<>>
  /\ error = "Failed to update status: Network error: No response from server"

\* C22: of two inline status changes of one record in flight together, the
\* one whose response is handled last decides the local status: when the
\* earlier change (to UnderReview) completes after the later one (to
\* Interview) has been merged and is what the server holds, the local
\* record goes back to UnderReview and the server keeps Interview.
C22_StaleOverwrite ==
  [][\A r \in InFlight :
       (/\ r.kind = "status" /\ r.ok /\ Completes(r)
        /\ r.status = UnderReview
        /\ Has(srv, r.id) /\ Find(srv, r.id).status = Interview
        /\ \E i \in DOMAIN jobApplications :
             /\ jobApplications[i].id = r.id
             /\ jobApplications[i].status = Interview) =>
         /\ Len(jobApplications') = Len(jobApplications)
         /\ \A i \in DOMAIN jobApplications :
              jobApplications[i].id = r.id =>
                jobApplications'[i].status = UnderReview
         /\ srv' = srv]_vars

\* both changes succeeded and nothing is in flight; the list shows the
\* earlier choice while the server holds the later one
C22_Witness ==
  /\ net = EmptyBag /\ error = ""
  /\ Len(jobApplications) = 1 /\ Len(srv) = 1
  /\ jobApplications[1].status = UnderReview
  /\ srv[1].status = Interview

\* C23: every status the client transmits is one of 1..6: the status of
\* every create and update issued by the form, the status asked for by an
\* inline change and the one in the update it sends.  Submitting a draft
\* whose status is outside 1..6 sends nothing and leaves the invalid-status
\* error on the status field.
C23_StatusInRange ==
  /\ [](\A r \in InFlight :
         /\ r.kind \in {"create", "update"} => r.dto.status \in 1..6
         /\ r.kind = "status" =>
              /\ r.status \in 1..6
              /\ r.dto # NoDto => r.dto.status = r.status)
  /\ [][(SubmitAttempt /\ formData.status \notin 1..6) =>
          /\ net' = net
          /\ ~isSubmitting'
          /\ errors'.status = "Please select a valid status"]_vars

\* the draft copied from a record with status 7 was submitted and refused,
\* while the record itself received a valid status through an inline change
C23_Witness ==
  /\ isFormVisible /\ ~isSubmitting
  /\ formData.status = 7
  /\ errors.status = "Please select a valid status"
  /\ Len(srv) = 1 /\ srv[1].status \in 1..6

\* C24: no two records of the list share an id, in every reachable state
\* (the server gives every record its own id and never lists one twice).
C24_UniqueIds ==
  \A i, j \in DOMAIN jobApplications :
    jobApplications[i].id = jobApplications[j].id => i = j

\* the create and update calls of the form that are in flight
FormCalls == {r \in InFlight : r.kind \in {"create", "update"}}

\* C26: at most one create or update issued by the form is in flight at any
\* time, whatever the user submits, cancels, closes and reopens.
C26_OneSubmission ==
  /\ Cardinality(FormCalls) <= 1
  /\ \A r \in FormCalls : CopiesIn(r, net) = 1

\* C25: when a create succeeds the filter is cleared and the new record is
\* one of the rows shown on the current page, whatever the filter and the
\* page were before.
C25_CreatedIsVisible ==
  [][\A r \in InFlight :
       (r.kind = "create" /\ r.ok /\ Completes(r)) =>
         /\ statusFilter' = NoFilter
         /\ r.result \in Range(currentApplications')]_vars

\* C27: the busy flags always clear.  With every call eventually answered
\* or failed, loading becomes false after mount, isSubmitting becomes false
\* after a submission and isDeleting after a delete; the handler of the
\* final response clears the flag of its call on success and on failure.
C27_BusyFlagsClear ==
  /\ loading ~> ~loading
  /\ isSubmitting ~> ~isSubmitting
  /\ isDeleting ~> ~isDeleting
  /\ [][\A r \in InFlight :
          Completes(r) =>
            /\ r.kind = "getAll" => ~loading'
            /\ r.kind \in {"create", "update"} => ~isSubmitting'
            /\ r.kind = "delete" => ~isDeleting']_vars

\* a delete failed: its error is shown in the open prompt and the button
\* is no longer busy
C27_Witness ==
  /\ net = EmptyBag /\ ~loading
  /\ showDeleteModal /\ ~isDeleting
  /\ error =
       "Failed to delete application: Network error: No response from server"

====
